---- MODULE Spec2Model ----
(***************************************************************************)
(* Model of the two client programs of the repository:                     *)
(*   - test_vllm.py, the diagnostic client (class VLLMTester and main),    *)
(*   - chatbot.py, the Gradio chat UI (module start-up, chat, respond).    *)
(* Text is modelled as a sequence of characters (or of opaque pieces of    *)
(* text), so that concatenation, trimming and containment are computed.    *)
(* The inference server is the environment: every response it can give is *)
(* drawn from a small set by the action that issues the request.           *)
(***************************************************************************)
EXTENDS Integers, Sequences, FiniteSets, TLC

VARIABLES
    \* ---- diagnostic client (test_vllm.py) ----
    pc,             \* position of main()
    exit_code,      \* process exit code, NoExit while running
    log,            \* the HTTP requests issued so far, with the server's answer
    models,         \* main's local `models` (the value list_models returned)
    model_name,     \* main's local `model_name`
    success_count,  \* main's local `success_count`
    total_tests,    \* main's local `total_tests`
    returned,       \* what the three counted tests returned to main, in order
    frames,         \* test_streaming: the lines iter_lines() has delivered
    full_text,      \* test_streaming's local `full_text`
    caught,         \* test_streaming: the exception its handler caught
    stream_result,  \* test_streaming's return value
    perf_i,         \* test_performance's loop index `i`
    times,          \* test_performance's local `times` (requests that got 200)
    \* ---- chat UI (chatbot.py) ----
    app,            \* position of the script: import, preflight, starting, ...
    app_exit,       \* exit code of the chat UI process, NoExit while running
    warned,         \* the preflight printed its warning
    chatbot,        \* value of the gr.Chatbot component (a list of turns)
    fn,             \* the handler that is running: "none", "chat", "respond"
    h_pc,           \* position of the running handler
    sys_prompt,     \* handler argument
    message,        \* handler argument
    history,        \* handler argument
    messages,       \* handler local: the message list sent with the request
    new_history,    \* respond's local `new_history`
    response,       \* handler local: the accumulator
    received,       \* the delta.content of the chunks the stream has delivered
    yields,         \* the values the handler has yielded, in order
    error           \* str(e) of the exception the handler caught, or NoError

diag_vars == <<pc, exit_code, log, models, model_name, success_count,
               total_tests, returned, frames, full_text, caught, stream_result,
               perf_i, times>>

chat_vars == <<app, app_exit, warned, chatbot, fn, h_pc, sys_prompt, message,
               history, messages, new_history, response, received, yields,
               error>>

vars == <<diag_vars, chat_vars>>

\* ------------------------------------------------------------------------
\* Bounds of the model
\* ------------------------------------------------------------------------
MaxModels == 2      \* models in a listing
MaxFrames == 3      \* lines of a streaming response before it ends
MaxPromptLen == 2   \* characters of a system prompt
MaxPairs == 1       \* (user, bot) pairs of the history given to chat
MaxHistory == 2     \* turns of the transcript at which respond is still invoked
MaxChunks == 3      \* chunks of a chat completion stream

\* ------------------------------------------------------------------------
\* Values
\* ------------------------------------------------------------------------
NoExit == -1                \* the process has not exited
NoModel == "<unset>"        \* model_name before line 239 assigns it
Missing == "<missing>"      \* a JSON object without the key asked for
ModelIds == {"m1", "m2"}

Min(a, b) == IF a <= b THEN a ELSE b

\* ------------------------------------------------------------------------
\* The server's possible answers
\* ------------------------------------------------------------------------
\* GET /health: a status code, or requests raises RequestException.
HealthResponses == {"200", "503", "RequestException"}

\* GET /v1/models: 200 with {"data": [...]}, 200 without "data", 200 with a
\* JSON value that is no object, a non-200 status, or RequestException.
ModelEntries == {[id |-> i] : i \in ModelIds \cup {Missing}}
ModelLists == UNION {[1..n -> ModelEntries] : n \in 0..MaxModels}
ListResponses ==
    {[kind |-> "200", data |-> ms] : ms \in ModelLists}
    \cup {[kind |-> k, data |-> <<>>] :
            k \in {"200-nodata", "200-notdict", "500", "RequestException"}}

\* POST /v1/completions (non-streaming): 200 with choices[0].text, 200 with
\* another shape, a non-200 status, or an exception of the request.
CompletionResponses == {"200", "200-malformed", "500", "Exception"}

\* client.chat.completions.create: a response with choices[0].message, a
\* response without it, or an exception (the client raises on error statuses).
ChatResponses == {"ok", "malformed", "Exception"}

\* POST /v1/completions with stream=True: a status, or an exception.
StreamResponses == {"200", "500", "Exception"}

\* ------------------------------------------------------------------------
\* VLLMTester
\* ------------------------------------------------------------------------
check_health_AlwaysTrue(resp) == TRUE

check_health(resp) == resp = "200"

\* [ret |-> "list" | "None" | "raise", value |-> the list]
list_models(resp) ==
    CASE resp.kind = "200"         -> [ret |-> "list", value |-> resp.data]
      [] resp.kind = "200-nodata"  -> [ret |-> "list", value |-> <<>>]
      [] resp.kind = "200-notdict" -> [ret |-> "raise", value |-> <<>>]
      [] OTHER                     -> [ret |-> "None", value |-> <<>>]

test_completion(resp) == resp = "200"

test_chat_completion(resp) == resp = "ok"

\* ------------------------------------------------------------------------
\* main()
\* ------------------------------------------------------------------------
Entry(op, model, answer) == [op |-> op, model |-> model, answer |-> answer]

DiagInit ==
    /\ pc = "health"
    /\ exit_code = NoExit
    /\ log = <<>>
    /\ models = <<>>
    /\ model_name = NoModel
    /\ success_count = 0
    /\ total_tests = 0
    /\ returned = <<>>
    /\ frames = <<>>
    /\ full_text = <<>>
    /\ caught = "none"
    /\ stream_result = "none"
    /\ perf_i = 1
    /\ times = <<>>

\* sys.exit(code), or an exception nothing catches (the interpreter prints
\* the traceback and the process ends with status 1).
Exit(code) ==
    /\ pc' = "exited"
    /\ exit_code' = code

\* Lines 223-230.
CheckHealth ==
    /\ pc = "health"
    /\ \E resp \in HealthResponses :
        /\ log' = Append(log, Entry("health", NoModel, resp))
        /\ IF check_health(resp)
             THEN pc' = "list" /\ UNCHANGED exit_code
             ELSE Exit(1)
    /\ UNCHANGED <<models, model_name, success_count, total_tests, returned, frames,
                   full_text, caught, stream_result, perf_i, times>>
    /\ UNCHANGED chat_vars

\* models[0]["id"], line 239.
FirstModelId_Last(ms) == ms[Len(ms)].id

FirstModelId(ms) == ms[1].id

\* Lines 232-248.
ListModels ==
    /\ pc = "list"
    /\ \E resp \in ListResponses :
        LET r == list_models(resp) IN
        /\ log' = Append(log, Entry("models", NoModel, resp.kind))
        /\ IF r.ret = "raise"
             THEN \* data.get on a value that is no dict: AttributeError
                  Exit(1) /\ UNCHANGED <<models, model_name>>
             ELSE IF r.ret = "None" \/ Len(r.value) = 0
             THEN Exit(1) /\ models' = r.value /\ UNCHANGED model_name
             ELSE IF FirstModelId(r.value) = Missing
             THEN \* models[0]["id"]: KeyError
                  Exit(1) /\ models' = r.value /\ UNCHANGED model_name
             ELSE /\ models' = r.value
                  /\ model_name' = FirstModelId(r.value)
                  /\ pc' = "completion"
                  /\ UNCHANGED exit_code
    /\ UNCHANGED <<success_count, total_tests, returned, frames, full_text, caught,
                   stream_result, perf_i, times>>
    /\ UNCHANGED chat_vars

Bump(passed) == IF passed THEN success_count + 1 ELSE success_count

TestCompletion_Blocking ==
    /\ pc = "completion"
    /\ \E resp \in CompletionResponses :
        /\ log' = Append(log, Entry("completion", model_name, resp))
        /\ total_tests' = total_tests + 1
        /\ success_count' = Bump(test_completion(resp))
        /\ returned' = Append(returned, test_completion(resp))
        /\ IF test_completion(resp)
             THEN pc' = "chat" /\ UNCHANGED exit_code
             ELSE Exit(1)
    /\ UNCHANGED <<models, model_name, frames, full_text, caught,
                   stream_result, perf_i, times>>
    /\ UNCHANGED chat_vars

\* Lines 250-253.
TestCompletion ==
    /\ pc = "completion"
    /\ \E resp \in CompletionResponses :
        /\ log' = Append(log, Entry("completion", model_name, resp))
        /\ total_tests' = total_tests + 1
        /\ success_count' = Bump(test_completion(resp))
        /\ returned' = Append(returned, test_completion(resp))
    /\ pc' = "chat"
    /\ UNCHANGED <<exit_code, models, model_name, frames, full_text, caught,
                   stream_result, perf_i, times>>
    /\ UNCHANGED chat_vars

\* Lines 255-258.
TestChatCompletion ==
    /\ pc = "chat"
    /\ \E resp \in ChatResponses :
        /\ log' = Append(log, Entry("chat", model_name, resp))
        /\ total_tests' = total_tests + 1
        /\ success_count' = Bump(test_chat_completion(resp))
        /\ returned' = Append(returned, test_chat_completion(resp))
    /\ pc' = "streaming"
    /\ UNCHANGED <<exit_code, models, model_name, frames, full_text, caught,
                   stream_result, perf_i, times>>
    /\ UNCHANGED chat_vars

\* ------------------------------------------------------------------------
\* test_streaming (lines 124-167)
\* ------------------------------------------------------------------------
\* The pieces of text a well-formed frame can carry.
Fragments == {<<"a">>, <<"b", "c">>}

\* A line of the response as iter_lines() yields it:
\*   blank     an empty line (keep-alive)
\*   comment   a non-empty line that does not start with "data: "
\*   done      data: [DONE]
\*   text      data: {"choices": [{"text": <text>}]}
\*   badjson   data: <not JSON>
\*   badshape  data: <JSON without choices[0].text>
\*   badutf8   bytes that are not UTF-8
Line(kind, text) == [kind |-> kind, text |-> text]
Lines ==
    {Line(k, <<>>) : k \in {"blank", "comment", "done", "badjson",
                            "badshape", "badutf8"}}
    \cup {Line("text", t) : t \in Fragments}

\* One pass of the loop body, lines 148-160: what happens to full_text and
\* how the loop goes on.
ProcessLine(line, text) ==
    CASE line.kind = "blank"    -> [ctl |-> "next", text |-> text, exc |-> "none"]
      [] line.kind = "badutf8"  -> [ctl |-> "raise", text |-> text,
                                    exc |-> "UnicodeDecodeError"]
      [] line.kind = "comment"  -> [ctl |-> "next", text |-> text, exc |-> "none"]
      [] line.kind = "done"     -> [ctl |-> "break", text |-> text, exc |-> "none"]
      [] line.kind = "badjson"  -> [ctl |-> "next", text |-> text, exc |-> "none"]
      [] line.kind = "badshape" -> [ctl |-> "raise", text |-> text,
                                    exc |-> "KeyError"]
      [] line.kind = "text"     -> [ctl |-> "next", text |-> text \o line.text,
                                    exc |-> "none"]

StreamingRequest_StatusChecked ==
    /\ pc = "streaming"
    /\ \E resp \in StreamResponses :
        /\ log' = Append(log, Entry("streaming", model_name, resp))
        /\ CASE resp = "Exception" ->
                  /\ pc' = "streaming_return"
                  /\ caught' = "RequestException"
                  /\ stream_result' = "False"
             [] resp = "200" ->
                  /\ pc' = "iter_lines"
                  /\ UNCHANGED <<caught, stream_result>>
             [] OTHER ->
                  /\ pc' = "streaming_return"
                  /\ stream_result' = "False"
                  /\ UNCHANGED caught
    /\ total_tests' = total_tests + 1
    /\ full_text' = <<>>
    /\ frames' = <<>>
    /\ UNCHANGED <<exit_code, models, model_name, success_count, returned,
                   perf_i, times>>
    /\ UNCHANGED chat_vars

\* Lines 260-261 and 127-146: the request is sent; an exception of the
\* request is caught at line 165.
StreamingRequest ==
    /\ pc = "streaming"
    /\ \E resp \in StreamResponses :
        /\ log' = Append(log, Entry("streaming", model_name, resp))
        /\ IF resp = "Exception"
             THEN /\ pc' = "streaming_return"
                  /\ caught' = "RequestException"
                  /\ stream_result' = "False"
             ELSE /\ pc' = "iter_lines"
                  /\ UNCHANGED <<caught, stream_result>>
    /\ total_tests' = total_tests + 1
    /\ full_text' = <<>>
    /\ frames' = <<>>
    /\ UNCHANGED <<exit_code, models, model_name, success_count, returned,
                   perf_i, times>>
    /\ UNCHANGED chat_vars

\* Lines 147-160: iter_lines() delivers one more line.
StreamLine ==
    /\ pc = "iter_lines"
    /\ Len(frames) < MaxFrames
    /\ \E line \in Lines :
        LET r == ProcessLine(line, full_text) IN
        /\ frames' = Append(frames, line)
        /\ full_text' = r.text
        /\ caught' = r.exc
        /\ CASE r.ctl = "next"  -> UNCHANGED <<pc, stream_result>>
             [] r.ctl = "break" -> pc' = "streaming_return" /\ stream_result' = "True"
             [] r.ctl = "raise" -> pc' = "streaming_return" /\ stream_result' = "False"
    /\ UNCHANGED <<exit_code, log, models, model_name, success_count,
                   total_tests, returned, perf_i, times>>
    /\ UNCHANGED chat_vars

\* Line 147: the response ends without data: [DONE].
StreamExhausted ==
    /\ pc = "iter_lines"
    /\ pc' = "streaming_return"
    /\ stream_result' = "True"
    /\ UNCHANGED <<exit_code, log, models, model_name, success_count,
                   total_tests, returned, frames, full_text, caught, perf_i, times>>
    /\ UNCHANGED chat_vars

\* Line 147: the connection breaks while iter_lines() waits for a line.
StreamBroken ==
    /\ pc = "iter_lines"
    /\ pc' = "streaming_return"
    /\ caught' = "ChunkedEncodingError"
    /\ stream_result' = "False"
    /\ UNCHANGED <<exit_code, log, models, model_name, success_count,
                   total_tests, returned, frames, full_text, perf_i, times>>
    /\ UNCHANGED chat_vars

\* Lines 162-167 and 262-263: test_streaming returns, its locals are gone.
StreamingReturn ==
    /\ pc = "streaming_return"
    /\ success_count' = Bump(stream_result = "True")
    /\ returned' = Append(returned, stream_result = "True")
    /\ pc' = "perf"
    /\ frames' = <<>>
    /\ full_text' = <<>>
    /\ caught' = "none"
    /\ stream_result' = "none"
    /\ UNCHANGED <<exit_code, log, models, model_name, total_tests, perf_i, times>>
    /\ UNCHANGED chat_vars

\* ------------------------------------------------------------------------
\* test_performance (lines 169-211), called with num_requests=3
\* ------------------------------------------------------------------------
NumRequests == 3
NumPrompts == 5
PerfResponses == {"200", "500", "Exception"}

\* Lines 181-202: one request of the batch.
PerfRequest ==
    /\ pc = "perf"
    /\ perf_i <= Min(NumRequests, NumPrompts)
    /\ \E resp \in PerfResponses :
        /\ log' = Append(log, Entry("perf", model_name, resp))
        /\ times' = IF resp = "200" THEN Append(times, perf_i) ELSE times
    /\ perf_i' = perf_i + 1
    /\ UNCHANGED <<pc, exit_code, models, model_name, success_count,
                   total_tests, returned, frames, full_text, caught, stream_result>>
    /\ UNCHANGED chat_vars

\* Lines 204-211: the summary of the batch is printed, the function returns.
PerfReturn ==
    /\ pc = "perf"
    /\ perf_i > Min(NumRequests, NumPrompts)
    /\ pc' = "summary"
    /\ times' = <<>>
    /\ UNCHANGED <<exit_code, log, models, model_name, success_count,
                   total_tests, returned, frames, full_text, caught, stream_result, perf_i>>
    /\ UNCHANGED chat_vars

\* Lines 275-280.
ExitCode_AnyPassed(passed, total) == IF passed >= 1 THEN 0 ELSE 1

ExitCode(passed, total) == IF passed = total THEN 0 ELSE 1

\* Lines 268-280.
Summary ==
    /\ pc = "summary"
    /\ Exit(ExitCode(success_count, total_tests))
    /\ UNCHANGED <<log, models, model_name, success_count, total_tests, returned,
                   frames, full_text, caught, stream_result, perf_i, times>>
    /\ UNCHANGED chat_vars

\* ========================================================================
\* chatbot.py
\* ========================================================================
\* Python's None where a string is expected; no text is equal to it.
NoneStr == <<"<None>">>
NoError == <<"<no error>">>

Whitespace == {" ", "\n"}

\* str.strip(): the text without its leading and trailing whitespace.
RECURSIVE lstrip(_)
lstrip(s) ==
    IF s # <<>> /\ Head(s) \in Whitespace THEN lstrip(Tail(s)) ELSE s

RECURSIVE rstrip(_)
rstrip(s) ==
    IF s # <<>> /\ s[Len(s)] \in Whitespace
        THEN rstrip(SubSeq(s, 1, Len(s) - 1))
        ELSE s

strip(s) == rstrip(lstrip(s))

\* Truth value of an optional string: None and "" are false.
Truthy(s) == s # NoneStr /\ s # <<>>

\* Line 21: VLLM_BASE_URL, here its default.
VLLM_BASE_URL == <<"http://localhost:8009/v1">>

Turn(role, content) == [role |-> role, content |-> content]

\* Lines 53-57 and 199-200: the system turn, if any.
SystemTurns_Stripped(prompt) ==
    IF Truthy(prompt) /\ Truthy(strip(prompt))
        THEN <<Turn("system", strip(prompt))>>
        ELSE <<>>

SystemTurns(prompt) ==
    IF Truthy(prompt) /\ Truthy(strip(prompt))
        THEN <<Turn("system", prompt)>>
        ELSE <<>>

\* Lines 60-64: the (user_msg, bot_msg) pairs as turns.
RECURSIVE chat_history_BotFirst(_)
chat_history_BotFirst(pairs) ==
    IF pairs = <<>> THEN <<>>
    ELSE (IF Truthy(Head(pairs)[2])
            THEN <<Turn("assistant", Head(pairs)[2])>> ELSE <<>>)
         \o (IF Truthy(Head(pairs)[1])
            THEN <<Turn("user", Head(pairs)[1])>> ELSE <<>>)
         \o chat_history_BotFirst(Tail(pairs))

RECURSIVE chat_history(_)
chat_history(pairs) ==
    IF pairs = <<>> THEN <<>>
    ELSE (IF Truthy(Head(pairs)[1])
            THEN <<Turn("user", Head(pairs)[1])>> ELSE <<>>)
         \o (IF Truthy(Head(pairs)[2])
            THEN <<Turn("assistant", Head(pairs)[2])>> ELSE <<>>)
         \o chat_history(Tail(pairs))

\* Lines 50-67.
chat_messages(msg, pairs, prompt) ==
    SystemTurns(prompt) \o chat_history(pairs) \o <<Turn("user", msg)>>

\* Lines 197-207.
respond_messages(msg, hist, prompt) ==
    SystemTurns(prompt)
    \o (IF hist # <<>> THEN hist ELSE <<>>)
    \o <<Turn("user", msg)>>

\* Lines 83 and 225: response += chunk.choices[0].delta.content
Accumulate_Overwrite(acc, content) == content

Accumulate(acc, content) == acc \o content

\* Line 87.
chat_error_msg(e) ==
    <<"Error: ">> \o e \o <<"\n\nMake sure vLLM is running at ">>
    \o VLLM_BASE_URL

\* Line 233.
respond_error_msg_NoUrl(e) ==
    <<"Connection Error: ">> \o e
    \o <<"\n\nPlease check:\n1. vLLM is running: docker compose ps">>

respond_error_msg(e) ==
    <<"Connection Error: ">> \o e
    \o <<"\n\nPlease check:\n1. vLLM is running: docker compose ps\n2. API endpoint: ">>
    \o VLLM_BASE_URL

\* ---- inputs ----
SeqsUpTo(S, n) == UNION {[1..k -> S] : k \in 0..n}

Prompts == SeqsUpTo({" ", "p"}, MaxPromptLen)
UserMessages == {<<>>, <<"q">>}
PairItems == {NoneStr, <<>>, <<"q">>}
PairHistories == SeqsUpTo(PairItems \X PairItems, MaxPairs)

\* delta.content of a chunk: a piece of text, "" or None.
ChunkContents == Fragments \cup {<<>>, NoneStr}

\* str(e) of what the client, or reading a chunk, can raise.
ErrorTexts == {<<"Connection error.">>, <<"list index out of range">>}

\* The model listing of the preflight (lines 286-288): a listing, a response
\* without .data, or an exception of the client.
PreflightResponses == {"ok", "malformed", "APIConnectionError", "APIStatusError"}

ChatInit ==
    /\ app = "import"
    /\ app_exit = NoExit
    /\ warned = FALSE
    /\ chatbot = <<>>
    /\ fn = "none"
    /\ h_pc = "idle"
    /\ sys_prompt = <<>>
    /\ message = <<>>
    /\ history = <<>>
    /\ messages = <<>>
    /\ new_history = <<>>
    /\ response = <<>>
    /\ received = <<>>
    /\ yields = <<>>
    /\ error = NoError

\* Lines 25-32: the client is built, or the script exits with 1.
ImportModule ==
    /\ app = "import"
    /\ \/ app' = "preflight" /\ UNCHANGED app_exit
       \/ app' = "exited" /\ app_exit' = 1
    /\ UNCHANGED <<warned, chatbot, fn, h_pc, sys_prompt, message, history,
                   messages, new_history, response, received, yields, error>>
    /\ UNCHANGED diag_vars

Preflight_Fatal ==
    /\ app = "preflight"
    /\ \E resp \in PreflightResponses :
        IF resp = "ok"
            THEN app' = "starting" /\ UNCHANGED <<warned, app_exit>>
            ELSE app' = "exited" /\ app_exit' = 1 /\ warned' = TRUE
    /\ UNCHANGED <<chatbot, fn, h_pc, sys_prompt, message, history,
                   messages, new_history, response, received, yields, error>>
    /\ UNCHANGED diag_vars

\* Lines 284-299: the preflight.
Preflight ==
    /\ app = "preflight"
    /\ \E resp \in PreflightResponses :
        warned' = (resp # "ok")
    /\ app' = "starting"
    /\ UNCHANGED <<app_exit, chatbot, fn, h_pc, sys_prompt, message, history,
                   messages, new_history, response, received, yields, error>>
    /\ UNCHANGED diag_vars

\* Lines 301-307: demo.launch().
Launch ==
    /\ app = "starting"
    /\ app' = "serving"
    /\ UNCHANGED <<app_exit, warned, chatbot, fn, h_pc, sys_prompt, message,
                   history, messages, new_history, response, received, yields,
                   error>>
    /\ UNCHANGED diag_vars

\* Lines 238-254 and 194-207: a submission invokes respond with the
\* transcript as history.
Submit ==
    /\ app = "serving"
    /\ fn = "none"
    /\ Len(chatbot) <= MaxHistory
    /\ \E msg \in UserMessages, prompt \in Prompts :
        /\ message' = msg
        /\ sys_prompt' = prompt
        /\ messages' = respond_messages(msg, chatbot, prompt)
    /\ history' = chatbot
    /\ fn' = "respond"
    /\ h_pc' = "create"
    /\ UNCHANGED <<app, app_exit, warned, chatbot, new_history, response,
                   received, yields, error>>
    /\ UNCHANGED diag_vars

\* Lines 35-67: chat is called. No event of the page is wired to chat and
\* chat reads nothing of the transcript, so it is called on the fresh page.
CallChat ==
    /\ app = "serving"
    /\ fn = "none"
    /\ chatbot = <<>>
    /\ \E msg \in UserMessages, pairs \in PairHistories, prompt \in Prompts :
        /\ message' = msg
        /\ sys_prompt' = prompt
        /\ history' = pairs
        /\ messages' = chat_messages(msg, pairs, prompt)
    /\ fn' = "chat"
    /\ h_pc' = "create"
    /\ UNCHANGED <<app, app_exit, warned, chatbot, new_history, response,
                   received, yields, error>>
    /\ UNCHANGED diag_vars

\* What the handler yields for the accumulator (lines 84 and 227).
Yielded(f, hist, acc) ==
    IF f = "respond" THEN hist \o <<Turn("assistant", acc)>> ELSE acc

\* Lines 71-80 and 211-221: the request is accepted, the stream is open.
\* The message list has been sent; neither handler reads it or the system
\* prompt again, and chat reads neither its history nor its message again.
CreateStream ==
    /\ h_pc = "create"
    /\ h_pc' = "stream"
    /\ new_history' = IF fn = "respond"
                        THEN history \o <<Turn("user", message)>>
                        ELSE new_history
    /\ response' = <<>>
    /\ messages' = <<>>
    /\ sys_prompt' = <<>>
    /\ IF fn = "chat"
         THEN message' = <<>> /\ history' = <<>>
         ELSE UNCHANGED <<message, history>>
    /\ UNCHANGED <<app, app_exit, warned, chatbot, fn, received, yields, error>>
    /\ UNCHANGED diag_vars

\* Lines 81-84 and 223-227: one chunk of the stream.
Chunk ==
    /\ h_pc = "stream"
    /\ Len(received) < MaxChunks
    /\ \E content \in ChunkContents :
        /\ received' = Append(received, content)
        /\ IF Truthy(content)
             THEN /\ response' = Accumulate(response, content)
                  /\ yields' = Append(yields, Yielded(fn, new_history, response'))
             ELSE UNCHANGED <<response, yields>>
    /\ UNCHANGED <<app, app_exit, warned, chatbot, fn, h_pc, sys_prompt,
                   message, history, messages, new_history, error>>
    /\ UNCHANGED diag_vars

\* Lines 81 and 223: the stream ends.
StreamEnds ==
    /\ h_pc = "stream"
    /\ h_pc' = "done"
    /\ UNCHANGED <<app, app_exit, warned, chatbot, fn, sys_prompt, message,
                   history, messages, new_history, response, received, yields,
                   error>>
    /\ UNCHANGED diag_vars

\* Lines 86-88 and 229-235: the request, or reading the stream, raises.
Except ==
    /\ h_pc \in {"create", "stream"}
    /\ \E e \in ErrorTexts :
        /\ error' = e
        /\ IF fn = "respond"
             THEN /\ new_history' = history \o <<Turn("user", message)>>
                  /\ yields' = Append(yields, Yielded(fn, new_history',
                                                      respond_error_msg(e)))
             ELSE /\ yields' = Append(yields, chat_error_msg(e))
                  /\ UNCHANGED new_history
    /\ h_pc' = "done"
    /\ UNCHANGED <<app, app_exit, warned, chatbot, fn, sys_prompt, message,
                   history, messages, response, received>>
    /\ UNCHANGED diag_vars

\* The generator is exhausted: the component shows the last value respond
\* yielded (outputs=chatbot, lines 238-254); the handler's locals are gone.
Finish ==
    /\ h_pc = "done"
    /\ chatbot' = IF fn = "respond" /\ yields # <<>>
                    THEN yields[Len(yields)]
                    ELSE chatbot
    /\ fn' = "none"
    /\ h_pc' = "idle"
    /\ sys_prompt' = <<>>
    /\ message' = <<>>
    /\ history' = <<>>
    /\ messages' = <<>>
    /\ new_history' = <<>>
    /\ response' = <<>>
    /\ received' = <<>>
    /\ yields' = <<>>
    /\ error' = NoError
    /\ UNCHANGED <<app, app_exit, warned>>
    /\ UNCHANGED diag_vars

\* Line 257: Clear empties the transcript.
Clear ==
    /\ app = "serving"
    /\ fn = "none"
    /\ chatbot # <<>>
    /\ chatbot' = <<>>
    /\ UNCHANGED <<app, app_exit, warned, fn, h_pc, sys_prompt, message,
                   history, messages, new_history, response, received, yields,
                   error>>
    /\ UNCHANGED diag_vars

\* ========================================================================
\* Specifications
\* ========================================================================
\* The diagnostic client runs; the chat UI is not started.
Init == DiagInit /\ ChatInit

Next ==
    \/ CheckHealth
    \/ ListModels
    \/ TestCompletion
    \/ TestChatCompletion
    \/ StreamingRequest
    \/ StreamLine
    \/ StreamExhausted
    \/ StreamBroken
    \/ StreamingReturn
    \/ PerfRequest
    \/ PerfReturn
    \/ Summary

Spec == Init /\ [][Next]_vars

\* The chat UI runs; the diagnostic client is not started.
ChatNext ==
    \/ ImportModule
    \/ Preflight
    \/ Launch
    \/ Submit
    \/ CallChat
    \/ CreateStream
    \/ Chunk
    \/ StreamEnds
    \/ Except
    \/ Finish
    \/ Clear

ChatSpec == Init /\ [][ChatNext]_vars

\* The script runs its statements one after the other: the model listing of
\* the preflight returns or raises, and demo.launch() is then called.
ChatFairSpec == ChatSpec /\ WF_vars(Preflight) /\ WF_vars(Launch)

\* ========================================================================
\* Properties of the diagnostic client
\* ========================================================================
LogOps == [i \in 1..Len(log) |-> log[i].op]

IsPrefix(s, t) == Len(s) <= Len(t) /\ \A i \in 1..Len(s) : s[i] = t[i]

HealthAsked == Len(log) >= 1
HealthFailed == HealthAsked /\ log[1].answer # "200"
ListingAsked == Len(log) >= 2
\* list_models returned None, or a list of zero models
ListingFailedOrEmpty ==
    /\ ListingAsked
    /\ \/ log[2].answer \in {"500", "RequestException"}
       \/ log[2].answer \in {"200", "200-nodata"} /\ Len(models) = 0
\* the listing gave at least one model and the first one has an id
ListingPassed ==
    /\ ListingAsked
    /\ log[2].answer = "200"
    /\ Len(models) > 0
    /\ models[1].id # Missing

TestOps == {"completion", "chat", "streaming", "perf"}
NoTestRequest == \A i \in 1..Len(log) : log[i].op \notin TestOps

\* C1: whenever check_health() fails (a non-200 status or a request
\* exception), the process exits with code 1, and neither the model listing
\* nor any completion, chat, streaming or performance request is issued.
C1_HealthFailureExits ==
    HealthFailed =>
        /\ pc = "exited"
        /\ exit_code = 1
        /\ LogOps = <<"health">>

C1_Witness ==
    /\ HealthFailed
    /\ log[1].answer = "RequestException"
    /\ exit_code = 1

\* The number of the counted tests that returned True.
RECURSIVE CountTrue(_)
CountTrue(bs) ==
    IF bs = <<>> THEN 0
    ELSE (IF Head(bs) THEN 1 ELSE 0) + CountTrue(Tail(bs))

AllFivePassed ==
    /\ HealthAsked /\ ~HealthFailed
    /\ ListingPassed
    /\ returned = <<TRUE, TRUE, TRUE>>

PerfAnswers == {log[i].answer : i \in {j \in 1..Len(log) : log[j].op = "perf"}}

\* C2: the exit code is 0 only if the health probe, the model listing, the
\* completion test, the chat completion test and the streaming test all
\* passed, and 1 in every other case; the requests of the performance batch
\* change neither the totals nor the exit code.
C2_ExitCodeIffAllPassed ==
    /\ pc = "exited" => /\ exit_code \in {0, 1}
                        /\ exit_code = 0 <=> AllFivePassed
    /\ pc \in {"perf", "summary"} =>
          /\ total_tests = 3
          /\ Len(returned) = 3
          /\ success_count = CountTrue(returned)

C2_Witness ==
    /\ pc = "exited"
    /\ exit_code = 0
    /\ PerfAnswers = {"500", "Exception"}

ExpectedOps ==
    <<"health", "models", "completion", "chat", "streaming">>
    \o [i \in 1..Min(NumRequests, NumPrompts) |-> "perf"]

\* C3: once the health probe and the model listing have passed (the listing
\* gave the model identifier), the completion test, the chat completion test,
\* the streaming test and every request of the performance batch are each
\* run exactly once, in that order, whatever the outcome of an earlier one;
\* nothing is retried and no failure stops the sequence.
C3_EveryStepRunsOnce ==
    ListingPassed =>
        /\ IsPrefix(LogOps, ExpectedOps)
        /\ pc = "exited" => LogOps = ExpectedOps
        /\ pc = "exited" => Len(returned) = 3

C3_Witness ==
    /\ pc = "exited"
    /\ ListingPassed
    /\ returned = <<FALSE, FALSE, FALSE>>
    /\ log[3].answer = "200-malformed"
    /\ log[4].answer = "Exception"
    /\ log[5].answer = "500"
    /\ PerfAnswers = {"200", "500", "Exception"}

\* C4: a successful model listing yields the id of the first listed model,
\* which is the model of every later request (completion, chat, streaming,
\* every performance request); if the listing fails or returns zero models
\* the process exits with code 1 and no such request is issued.
C4_FirstModelUsedEverywhere ==
    /\ \A i \in 1..Len(log) :
          log[i].op \in TestOps =>
              /\ ListingPassed
              /\ log[i].model = models[1].id
              /\ model_name = models[1].id
    /\ ListingFailedOrEmpty =>
          /\ pc = "exited"
          /\ exit_code = 1
          /\ NoTestRequest

C4_Witness ==
    /\ pc = "exited"
    /\ Len(log) = Len(ExpectedOps)
    /\ Len(models) = 2
    /\ models[1].id # models[2].id
    /\ \A i \in 3..Len(log) : log[i].model = models[1].id

\* The text of the well-formed frames among the lines, in arrival order, up
\* to the terminal data: [DONE].
RECURSIVE WellFormedText(_)
WellFormedText(ls) ==
    IF ls = <<>> \/ Head(ls).kind = "done" THEN <<>>
    ELSE (IF Head(ls).kind = "text" THEN Head(ls).text ELSE <<>>)
         \o WellFormedText(Tail(ls))

\* C9: in the streaming test a malformed frame is skipped without ending
\* the stream: when the request was sent and the connection did not break,
\* the test goes through every frame up to data: [DONE] and the accumulated
\* text is the concatenation of the text of the well-formed frames.
C9_MalformedFrameSkipped ==
    (pc = "streaming_return"
        /\ caught \notin {"RequestException", "ChunkedEncodingError"}) =>
        /\ caught = "none"
        /\ stream_result = "True"
        /\ full_text = WellFormedText(frames)

\* C11: the streaming test passes whenever the request and the iteration
\* over the response lines end without an exception, whatever the HTTP status
\* of the response, whether or not a well-formed frame came and whether or
\* not data: [DONE] was seen; a non-200 status fails the completion test but
\* never the streaming test.
C11_StreamingPassesUnlessRaised ==
    /\ pc = "streaming_return" =>
          (stream_result = "True" <=> caught = "none")
    /\ (Len(returned) >= 1 /\ log[3].answer # "200") => ~returned[1]
    /\ (Len(returned) = 3 /\ log[5].answer = "Exception") => ~returned[3]

C11_Witness ==
    /\ pc = "streaming_return"
    /\ log[3].answer = "500"
    /\ ~returned[1]
    /\ log[5].answer = "500"
    /\ \A i \in 1..Len(frames) : frames[i].kind \notin {"text", "done"}
    /\ Len(frames) = 2
    /\ stream_result = "True"

\* ========================================================================
\* Properties of the chat UI
\* ========================================================================
NoSystemTurn(ms) == \A i \in 1..Len(ms) : ms[i].role # "system"

\* C5 as claimed: the first entry is a system turn whose content is the
\* trimmed prompt when the prompt is non-empty after trimming, and there is
\* no system entry when the prompt is empty or whitespace-only.
C5_SystemTurnTrimmed ==
    h_pc = "create" =>
        IF strip(sys_prompt) # <<>>
            THEN messages[1] = Turn("system", strip(sys_prompt))
            ELSE NoSystemTurn(messages)

\* C5, amended: the first entry is a system turn whose content is the
\* prompt exactly as given (not trimmed) when the prompt is non-empty after
\* trimming, and there is no system entry when the prompt is empty or
\* whitespace-only.
C5_SystemTurnAsGiven ==
    h_pc = "create" =>
        IF strip(sys_prompt) # <<>>
            THEN /\ messages[1] = Turn("system", sys_prompt)
                 /\ NoSystemTurn(Tail(messages))
            ELSE NoSystemTurn(messages)

C5_Witness ==
    /\ h_pc = "create"
    /\ sys_prompt = <<" ", "p">>
    /\ messages[1].role = "system"

\* The message list without its optional leading system turn.
AfterSystem(ms) ==
    IF ms # <<>> /\ ms[1].role = "system" THEN Tail(ms) ELSE ms

\* The prior turns of a history of (user, bot) pairs: one turn for every
\* message that is there (None stands for no message).
RECURSIVE PairTurns(_, _)
PairTurns(pairs, dropEmpty) ==
    IF pairs = <<>> THEN <<>>
    ELSE LET u == Head(pairs)[1]
             b == Head(pairs)[2]
             Present(m) == m # NoneStr /\ (dropEmpty => m # <<>>)
         IN (IF Present(u) THEN <<[role |-> "user", content |-> u]>> ELSE <<>>)
            \o (IF Present(b) THEN <<[role |-> "assistant", content |-> b]>>
                ELSE <<>>)
            \o PairTurns(Tail(pairs), dropEmpty)

PriorTurns == IF fn = "chat" THEN PairTurns(history, FALSE) ELSE history
NonEmptyPriorTurns ==
    IF fn = "chat" THEN PairTurns(history, TRUE) ELSE history

NewUserTurn == <<[role |-> "user", content |-> message]>>

\* C6 as claimed: after the optional system turn the message list holds the
\* prior turns in their order, none dropped, duplicated or reordered, and
\* ends with exactly one new user turn carrying the new message.
C6_PriorTurnsKept ==
    h_pc = "create" => AfterSystem(messages) = PriorTurns \o NewUserTurn

\* C6, amended: as claimed, except that chat leaves out the prior messages
\* whose text is empty: after the optional system turn the message list holds
\* the prior turns (in chat: those with a non-empty text) in their order,
\* none duplicated or reordered, and ends with exactly one new user turn
\* carrying the new message.
C6_NonEmptyPriorTurnsKept ==
    h_pc = "create" => AfterSystem(messages) = NonEmptyPriorTurns \o NewUserTurn

C6_Witness ==
    /\ h_pc = "create"
    /\ fn = "chat"
    /\ history = << <<(<<"q">>), (<<"q">>)>> >>
    /\ Len(messages) = 4

\* The text of a yielded value: chat yields the text, respond the transcript
\* whose last turn carries it.
TextOf(y) == IF fn = "respond" THEN y[Len(y)].content ELSE y

Displayed == IF yields = <<>> THEN <<>> ELSE TextOf(yields[Len(yields)])

\* f1 + f2 + ... + fn of the fragments received (None carries no text).
RECURSIVE ConcatContents(_)
ConcatContents(cs) ==
    IF cs = <<>> THEN <<>>
    ELSE (IF Head(cs) = NoneStr THEN <<>> ELSE Head(cs))
         \o ConcatContents(Tail(cs))

\* C7: for any fragments received without error, the empty sequence
\* included, the text displayed is their concatenation in arrival order, and
\* every text emitted extends the one emitted before it.
C7_StreamAccumulates ==
    (h_pc \in {"stream", "done"} /\ error = NoError) =>
        /\ response = ConcatContents(received)
        /\ Displayed = ConcatContents(received)
        /\ \A i \in 1..(Len(yields) - 1) :
              /\ IsPrefix(TextOf(yields[i]), TextOf(yields[i + 1]))
              /\ Len(TextOf(yields[i])) < Len(TextOf(yields[i + 1]))

C7_Witness ==
    /\ h_pc = "done"
    /\ error = NoError
    /\ fn = "respond"
    /\ received = << <<"b", "c">>, <<>>, <<"a">> >>
    /\ Displayed = <<"b", "c", "a">>

Contains(sub, s) ==
    \E i \in 0..(Len(s) - Len(sub)) : SubSeq(s, i + 1, i + Len(sub)) = sub

\* C8: when the request fails or the stream raises, before the first
\* fragment or after some, respond yields the prior history, the new user
\* turn and a single assistant turn whose text contains the diagnostic
\* message and the configured base URL; it then ends without raising and
\* yields nothing more.
C8_ErrorTurn ==
    (fn = "respond" /\ error # NoError) =>
        /\ h_pc = "done"
        /\ yields # <<>>
        /\ LET y == yields[Len(yields)]
               text == y[Len(y)].content
           IN /\ y = history \o NewUserTurn
                       \o <<[role |-> "assistant", content |-> text]>>
              /\ Contains(error, text)
              /\ Contains(VLLM_BASE_URL, text)
        /\ \A i \in 1..(Len(yields) - 1) :
              ~Contains(error, TextOf(yields[i]))

C8_Witness ==
    /\ fn = "respond"
    /\ error # NoError
    /\ Len(history) = 2
    /\ Len(received) = 2
    /\ Len(yields) = 3

\* C10: the preflight is advisory: whether the model listing succeeds or
\* fails, the script goes on to launch the interface; a failure only sets the
\* warning, it never ends the process.
C10_PreflightNeverBlocks ==
    /\ [][/\ app = "preflight" => app' = "starting"
          /\ app = "starting" => app' = "serving"]_vars
    /\ (app = "preflight") ~> (app = "serving")

C10_Witness ==
    /\ app = "serving"
    /\ warned

====
